---- MODULE Spec2Model ----
(***************************************************************************)
(* Model of the crime-data loaders of FightFor_CrimeData:                  *)
(*   - fetch_and_save_all (API-Chicago-request.py), the paged REST loader  *)
(*     that resumes from COUNT of chicago_crimes for each year;         *)
(*   - the duplicate clean-up block of check_db.py, which copies           *)
(*     chicago_crimes into chicago_crimes_temp with INSERT IGNORE in       *)
(*     batches and swaps the two tables;                                   *)
(*   - process_and_upload_local_data (API-NIBRS-request.py), the loader    *)
(*     of the yearly NIBRS extract files.                                   *)
(* The store, the paged source and the operator's answer are the           *)
(* environment: each call into them may succeed or raise, and a process    *)
(* may be terminated between any two calls.                                *)
(***************************************************************************)
EXTENDS Integers, Sequences, FiniteSets, TLC

(* ---------------------------------------------------------------- sizes *)

\* range(2015, 2025), cut to its first two years.
FirstYear == 2015
LastYear == 2016
Years == FirstYear..LastYear

\* limit = 10000 (page size) and to_sql's chunksize = 1000, scaled.
Limit == 2
ChunkSize == 1

\* `if retry_count > 10`
MaxRetry == 10

\* Most records the source holds for one year.
MaxSrc == 4
\* Fresh runs of the loader after the first one.
MaxRestarts == 1
\* Transient failures (a call that raises although the service is up), over
\* all runs. An outage of the source is not counted: it fails every call.
MaxFaults == 2

\* Loader processes: Main runs in every specification, Other only where two
\* instances are started against the same table.
Main == 1
Other == 2
Loaders == {Main, Other}

VARIABLES
    source,     \* [Years -> Seq(record)]: the upstream dataset, ordered by date
    crimes,     \* table chicago_crimes
    temp,       \* table chicago_crimes_temp
    ld,         \* [Loaders -> locals and position of that loader process]
    cp,         \* the clean-up script: its locals and its position
    env,        \* the environment: outage of the source, faults and runs so far
    files,      \* DATA_DIR: the year folders and the CSV file of each (year, table)
    nibrs,      \* [table name -> that NIBRS table in the store]
    nl,         \* process_and_upload_local_data: its locals and its position
    nm          \* one record or chunk on its way through a loader's cleaning

vars == <<source, crimes, temp, ld, cp, env, files, nibrs, nl, nm>>

(* --------------------------------------------------------------- tables *)

\* A table is its rows in scan order and whether a UNIQUE index on ID exists.
NoTable == [exists |-> FALSE, rows |-> <<>>, uniq |-> FALSE]
NewTable(rs) == [exists |-> TRUE, rows |-> rs, uniq |-> FALSE]

Ids(rs) == {rs[i].ID : i \in DOMAIN rs}

\* SELECT COUNT FROM chicago_crimes WHERE YEAR = :year
CountYear(rs, y) == Cardinality({i \in DOMAIN rs : rs[i].YEAR = y})

Min(a, b) == IF a < b THEN a ELSE b
Max(a, b) == IF a > b THEN a ELSE b

(* --------------------------------------------------------------- source *)

\* The i-th record of year y with n records in the year, the b-th of which
\* (b = 0: none) carries a date that cannot be parsed.
SrcId(y, i) == (y - FirstYear) * (MaxSrc + 1) + i
SrcRecord(y, i, b) == [id |-> SrcId(y, i), year |-> y, dateOK |-> (i # b)]
SrcYear(y, n, b) == [i \in 1..n |-> SrcRecord(y, i, b)]

\* client.get(where = year's date range, limit, offset, order = "date ASC")
Get(y, lim, off) ==
    LET s == source[y]
    IN  IF off >= Len(s) THEN <<>> ELSE SubSeq(s, off + 1, Min(off + lim, Len(s)))

(* --------------------------------------------------------------- loader *)

\* Lines 80-89: the page as a frame; to_datetime raises on a bad date.
CleanRaises(results) == \E i \in DOMAIN results : ~results[i].dateOK
Clean(results) == [i \in DOMAIN results |-> [ID |-> results[i].id, YEAR |-> results[i].year]]

\* The locals at the top of the year loop (lines 41-44), with the history kept
\* for this year of this run.
YearTop(y) ==
    [pc |-> "check_resume", year |-> y, offset |-> 0, total_year_records |-> 0,
     retry_count |-> 0, results |-> <<>>,
     h_fetches |-> 0,       \* calls of client.get for this year, counted while
                            \* they all returned or all raised (else 0)
     h_first |-> -1,        \* offset of the first of them
     h_failed |-> FALSE,    \* an iteration raised
     h_consec |-> 0,        \* iterations that raised since the last one that did not
     h_fetched |-> FALSE,   \* a call of client.get returned
     h_written |-> 0,       \* rows this year's iterations appended
     h_resumed |-> FALSE,   \* the count query returned
     h_start |-> 0,         \* offset after the resume block
     h_lastlen |-> -1,      \* size of the last page returned
     h_pending |-> FALSE,   \* a fetched page whose write raised is not yet written
     h_page |-> <<>>,       \* that page
     h_done |-> {}]         \* years that reached the final print in this run

InitLoader == YearTop(FirstYear)
Off == [YearTop(FirstYear) EXCEPT !.pc = "off"]

Running(p) == ld[p].pc \in {"check_resume", "fetch", "write", "retry_wait", "year_done"}

\* if_exists='append': the table is created by the first write.
AppendRowsReplace(tbl, rs) == NewTable(rs)
AppendRows(tbl, rs) ==
    IF tbl.exists THEN [tbl EXCEPT !.rows = @ \o rs] ELSE NewTable(rs)

\* A UNIQUE index on ID rejects the statement that would repeat an ID.
CanAppend(tbl, rs) ==
    \/ ~tbl.uniq
    \/ /\ Ids(rs) \cap Ids(tbl.rows) = {}
       /\ Cardinality(Ids(rs)) = Len(rs)

\* to_sql sends the frame in statements of chunksize rows: what is durable when
\* it raises is a whole number of chunks, fewer than all the rows.
FailPrefixes(n) == {j \in 0..n : j < n /\ j % ChunkSize = 0}

\* Lines 104-114: the except block, entered with locals s.
ExceptAtBound(s) ==
    [s EXCEPT !.retry_count = @ + 1,
              !.h_failed = TRUE,
              !.h_consec = @ + 1,
              !.pc = IF s.retry_count + 1 >= MaxRetry THEN "halted" ELSE "retry_wait"]
ExceptSkipPage(s) ==
    [s EXCEPT !.retry_count = @ + 1,
              !.offset = @ + Limit,
              !.h_failed = TRUE,
              !.h_consec = @ + 1,
              !.pc = IF s.retry_count + 1 > MaxRetry THEN "halted" ELSE "retry_wait"]
ExceptNextYear(s) ==
    [s EXCEPT !.retry_count = @ + 1,
              !.h_failed = TRUE,
              !.h_consec = @ + 1,
              !.pc = IF s.retry_count + 1 > MaxRetry THEN "year_done" ELSE "retry_wait"]
ExceptBreak(s) ==
    [s EXCEPT !.retry_count = @ + 1,
              !.h_failed = TRUE,
              !.h_consec = @ + 1,
              !.pc = IF s.retry_count + 1 > MaxRetry THEN "halted" ELSE "year_done"]
ExceptNoWait(s) ==
    [s EXCEPT !.retry_count = @ + 1,
              !.h_failed = TRUE,
              !.h_consec = @ + 1,
              !.pc = IF s.retry_count + 1 > MaxRetry THEN "halted" ELSE "fetch"]
Except(s) ==
    [s EXCEPT !.retry_count = @ + 1,
              !.h_failed = TRUE,
              !.h_consec = @ + 1,
              !.pc = IF s.retry_count + 1 > MaxRetry THEN "halted" ELSE "retry_wait"]

\* Lines 46-59: the resume block. The query raises when the table is absent and
\* may raise for any other reason; either way offset stays 0.
ResumeOffsetAll(tbl, y) == Len(tbl.rows)
ResumeOffsetPage(tbl, y) == (CountYear(tbl.rows, y) \div Limit) * Limit
ResumeOffset(tbl, y) == CountYear(tbl.rows, y)

\* The locals after the resume block, ok telling whether the query returned.
ResumeBlockRaises(s, ok, tbl) ==
    IF ok
    THEN LET off == ResumeOffset(tbl, s.year)
         IN  [s EXCEPT !.offset = off,
                       !.total_year_records = IF off > 0 THEN off ELSE 0,
                       !.retry_count = 0,
                       !.h_resumed = TRUE,
                       !.h_start = off,
                       !.pc = "fetch"]
    ELSE Except([s EXCEPT !.h_resumed = FALSE])
ResumeBlock(s, ok, tbl) ==
    LET off == IF ok THEN ResumeOffset(tbl, s.year) ELSE 0
    IN  [s EXCEPT !.offset = off,
                  !.total_year_records = IF off > 0 THEN off ELSE 0,
                  !.retry_count = 0,
                  !.h_resumed = ok,
                  !.h_start = off,
                  !.pc = "fetch"]

CheckResume(p) ==
    /\ ld[p].pc = "check_resume"
    /\ \E ok \in BOOLEAN :
         /\ ok => crimes.exists
         /\ ~ok => ~crimes.exists \/ env.faults < MaxFaults
         /\ env' = [env EXCEPT !.faults = IF ~ok /\ crimes.exists THEN @ + 1 ELSE @]
         /\ ld' = [ld EXCEPT ![p] = ResumeBlock(@, ok, crimes)]
    /\ UNCHANGED <<files, nibrs, nl, nm, source, crimes, temp, cp>>

\* Lines 66-77: the call returns a page; an empty page ends the year.
Fetch(p) ==
    /\ ld[p].pc = "fetch"
    /\ ~env.down
    /\ LET s == ld[p]
           res == Get(s.year, Limit, s.offset)
       IN  ld' = [ld EXCEPT ![p] =
                   [s EXCEPT !.results = res,
                             !.h_fetches = IF s.h_failed THEN 0 ELSE @ + 1,
                             !.h_first = IF @ = -1 THEN s.offset ELSE @,
                             !.h_fetched = TRUE,
                             !.h_lastlen = Len(res),
                             !.h_consec = IF res = <<>> THEN 0 ELSE @,
                             !.h_done = IF res = <<>> THEN @ \cup {s.year} ELSE @,
                             !.pc = IF res = <<>> THEN "year_done" ELSE "write"]]
    /\ UNCHANGED <<files, nibrs, nl, nm, source, crimes, temp, cp, env>>

\* Lines 66-74 and 104-114: the call raises.
FetchFail(p) ==
    /\ ld[p].pc = "fetch"
    /\ env.down \/ env.faults < MaxFaults
    /\ env' = [env EXCEPT !.faults = IF env.down THEN @ ELSE @ + 1]
    /\ LET s == ld[p]
       IN  ld' = [ld EXCEPT ![p] =
                   Except([s EXCEPT !.h_fetches = IF s.h_fetched THEN 0 ELSE @ + 1,
                                    !.h_first = IF @ = -1 THEN s.offset ELSE @])]
    /\ UNCHANGED <<files, nibrs, nl, nm, source, crimes, temp, cp>>

\* Lines 112-114: sleep(2); continue.
Backoff(p) ==
    /\ ld[p].pc = "retry_wait"
    /\ ld' = [ld EXCEPT ![p].pc = "fetch"]
    /\ UNCHANGED <<files, nibrs, nl, nm, source, crimes, temp, cp, env>>

\* Lines 95-102 and 117: the page is written; a short page ends the year.
AdvanceNoBreak(s) ==
    LET n == Len(s.results)
    IN  [s EXCEPT !.offset = @ + n,
                  !.total_year_records = @ + n,
                  !.retry_count = 0,
                  !.results = <<>>,
                  !.h_written = @ + n,
                  !.h_pending = FALSE,
                  !.h_consec = 0,
                  !.h_page = <<>>,
                  !.pc = "fetch"]
AdvanceNoReset(s) ==
    LET n == Len(s.results)
    IN  [s EXCEPT !.offset = @ + n,
                  !.total_year_records = @ + n,
                  !.results = <<>>,
                  !.h_written = @ + n,
                  !.h_pending = FALSE,
                  !.h_consec = 0,
                  !.h_page = <<>>,
                  !.h_done = IF n < Limit THEN @ \cup {s.year} ELSE @,
                  !.pc = IF n < Limit THEN "year_done" ELSE "fetch"]
Advance(s) ==
    LET n == Len(s.results)
    IN  [s EXCEPT !.offset = @ + n,
                  !.total_year_records = @ + n,
                  !.retry_count = IF n < Limit THEN @ ELSE 0,
                  !.results = <<>>,
                  !.h_written = @ + n,
                  !.h_pending = FALSE,
                  !.h_consec = 0,
                  !.h_page = <<>>,
                  !.h_done = IF n < Limit THEN @ \cup {s.year} ELSE @,
                  !.pc = IF n < Limit THEN "year_done" ELSE "fetch"]

\* Lines 80-89 and 104-114: to_datetime raises on the page; nothing is written.
CleanFail(p) ==
    /\ ld[p].pc = "write"
    /\ CleanRaises(ld[p].results)
    /\ ld' = [ld EXCEPT ![p] = Except([@ EXCEPT !.results = <<>>, !.h_fetches = 0])]
    /\ UNCHANGED <<files, nibrs, nl, nm, source, crimes, temp, cp, env>>

\* Lines 80-102: the page is cleaned and appended whole.
Write(p) ==
    /\ ld[p].pc = "write"
    /\ ~CleanRaises(ld[p].results)
    /\ CanAppend(crimes, Clean(ld[p].results))
    /\ crimes' = AppendRows(crimes, Clean(ld[p].results))
    /\ ld' = [ld EXCEPT ![p] = Advance(@)]
    /\ UNCHANGED <<files, nibrs, nl, nm, source, temp, cp, env>>

\* Lines 92 and 104-114: to_sql raises after j rows are durable. The page held
\* in results is dropped: the next iteration calls client.get again.
WriteFail(p) ==
    /\ ld[p].pc = "write"
    /\ ~CleanRaises(ld[p].results)
    /\ env.faults < MaxFaults
    /\ env' = [env EXCEPT !.faults = @ + 1]
    /\ \E j \in FailPrefixes(Len(ld[p].results)) :
         LET done == SubSeq(Clean(ld[p].results), 1, j)
         IN  /\ CanAppend(crimes, done)
             /\ crimes' = IF j > 0 THEN AppendRows(crimes, done) ELSE crimes
             /\ ld' = [ld EXCEPT ![p] =
                         Except([@ EXCEPT !.results = <<>>,
                                          !.h_fetches = 0,
                                          !.h_written = @ + j,
                                          !.h_pending = TRUE,
                                          !.h_page = ld[p].results])]
    /\ UNCHANGED <<files, nibrs, nl, nm, source, temp, cp>>

\* Lines 92 and 104-114: to_sql raises and the transaction it runs in is rolled
\* back (a transactional table): nothing of the page is durable.
WriteRollback(p) ==
    /\ ld[p].pc = "write"
    /\ ~CleanRaises(ld[p].results)
    /\ env.faults < MaxFaults
    /\ env' = [env EXCEPT !.faults = @ + 1]
    /\ ld' = [ld EXCEPT ![p] =
                Except([@ EXCEPT !.results = <<>>,
                                 !.h_fetches = 0,
                                 !.h_pending = TRUE,
                                 !.h_page = ld[p].results])]
    /\ UNCHANGED <<files, nibrs, nl, nm, source, crimes, temp, cp>>

\* Lines 92 and 104-114: to_sql raises because the UNIQUE index refuses an ID
\* of the page: either nothing of the page is durable, or the chunks sent
\* before the refused one are.
RefusedPrefixes(tbl, rs) ==
    LET ok == {j \in FailPrefixes(Len(rs)) : CanAppend(tbl, SubSeq(rs, 1, j))}
    IN  {0} \cup {j \in ok : \A k \in ok : k <= j}

WriteRejected(p) ==
    /\ ld[p].pc = "write"
    /\ ~CleanRaises(ld[p].results)
    /\ ~CanAppend(crimes, Clean(ld[p].results))
    /\ \E j \in RefusedPrefixes(crimes, Clean(ld[p].results)) :
         /\ crimes' = IF j > 0
                      THEN AppendRows(crimes, SubSeq(Clean(ld[p].results), 1, j))
                      ELSE crimes
         /\ ld' = [ld EXCEPT ![p] =
                     Except([@ EXCEPT !.results = <<>>,
                                      !.h_fetches = 0,
                                      !.h_written = @ + j,
                                      !.h_pending = TRUE,
                                      !.h_page = ld[p].results])]
    /\ UNCHANGED <<files, nibrs, nl, nm, source, temp, cp, env>>

\* Line 120 and lines 41-44: the final print of the year, then the next year or
\* the end of the function.
NextYear(p) ==
    /\ ld[p].pc = "year_done"
    /\ ld' = [ld EXCEPT ![p] =
                IF ld[p].year + 1 > LastYear
                THEN [@ EXCEPT !.pc = "finished"]
                ELSE [YearTop(ld[p].year + 1) EXCEPT !.h_done = ld[p].h_done]]
    /\ UNCHANGED <<files, nibrs, nl, nm, source, crimes, temp, cp, env>>

\* The process is terminated from outside between two calls: its locals are lost.
Kill(p) ==
    /\ Running(p)
    /\ env.restarts < MaxRestarts
    /\ ld' = [ld EXCEPT ![p] = [InitLoader EXCEPT !.pc = "dead"]]
    /\ UNCHANGED <<files, nibrs, nl, nm, source, crimes, temp, cp, env>>

\* The process is terminated inside to_sql (line 92), after j > 0 rows of the
\* page are durable on top of the K rows the table holds for the year.
KillMidWrite(p) ==
    /\ ld[p].pc = "write"
    /\ ~CleanRaises(ld[p].results)
    /\ env.restarts < MaxRestarts
    /\ \E j \in FailPrefixes(Len(ld[p].results)) \ {0} :
         LET done == SubSeq(Clean(ld[p].results), 1, j)
             y == ld[p].year
             K == CountYear(crimes.rows, y)
         IN  /\ CanAppend(crimes, done)
             /\ crimes' = AppendRows(crimes, done)
             /\ env' = [env EXCEPT !.crash =
                          [run |-> env.restarts, year |-> y, K |-> K, j |-> j,
                           inorder |-> (K = ld[p].offset)]]
    /\ ld' = [ld EXCEPT ![p] = [InitLoader EXCEPT !.pc = "dead"]]
    /\ UNCHANGED <<files, nibrs, nl, nm, source, temp, cp>>

\* The script is started again: a fresh run of fetch_and_save_all (line 123).
Restart(p) ==
    /\ ld[p].pc \in {"dead", "halted", "finished"}
    /\ env.restarts < MaxRestarts
    /\ ld' = [ld EXCEPT ![p] = InitLoader]
    /\ env' = [env EXCEPT !.restarts = @ + 1,
                          !.startCount = [y \in Years |-> CountYear(crimes.rows, y)]]
    /\ UNCHANGED <<files, nibrs, nl, nm, source, crimes, temp, cp>>

(* ---------------------------------------------- check_db.py: clean-up *)

\* Most rows and distinct IDs of a table the clean-up starts from, the largest
\* batch size (batch_size = 50000, scaled), and runs of the script after the first.
MaxRows == 4
MaxId == 3
MaxBatch == 2
MaxCpRuns == 1

RowOfId(i) == [ID |-> i, YEAR |-> FirstYear + (i \div (MaxSrc + 1))]
TableRows == UNION {[1..n -> {RowOfId(i) : i \in 1..MaxId}] : n \in 0..MaxRows}
NoDup(rs) == Cardinality(Ids(rs)) = Len(rs)

\* The script's locals at its start, with the table as it was then.
InitCp(b, runs, after) ==
    [pc |-> "show_tables", has_table |-> FALSE, total |-> 0, unique |-> 0,
     duplicates |-> 0, total_rows |-> 0, batch_size |-> b, offset |-> 0, rows |-> 0,
     h_before |-> crimes.rows,  \* the rows when the script started
     h_answer |-> "",           \* what the operator typed at the prompt
     h_ran |-> FALSE,           \* this run swapped the tables
     h_after |-> after,         \* the run before this one swapped the tables
     h_batches |-> 0,           \* INSERT IGNORE statements of this run
     h_runs |-> runs]

\* Lines 28-35 and 119-120.
ShowTables ==
    /\ cp.pc = "show_tables"
    /\ cp' = [cp EXCEPT !.has_table = crimes.exists,
                        !.pc = IF crimes.exists THEN "stats" ELSE "end"]
    /\ UNCHANGED <<files, nibrs, nl, nm, source, crimes, temp, ld, env>>

\* Line 53: whether the clean-up is offered.
NeedsCleanupAlways(duplicates) == duplicates >= 0
NeedsCleanup(duplicates) == duplicates > 0

\* Lines 38-53: COUNT and COUNT(DISTINCT ID).
Stats ==
    /\ cp.pc = "stats"
    /\ crimes.exists
    /\ LET total == Len(crimes.rows)
           unique == Cardinality(Ids(crimes.rows))
       IN  cp' = [cp EXCEPT !.total = total,
                            !.unique = unique,
                            !.duplicates = total - unique,
                            !.pc = IF NeedsCleanup(total - unique)
                                   THEN "confirm" ELSE "preview"]
    /\ UNCHANGED <<files, nibrs, nl, nm, source, crimes, temp, ld, env>>

\* What the operator may type at the prompt, and confirm.lower() on it.
Answers == {"y", "Y", "n"}
LowerAnswer == [y |-> "y", Y |-> "y", n |-> "n"]

\* Line 56: confirm.lower() == 'y'.
ConfirmedAlways(confirm) == TRUE
Confirmed(confirm) == LowerAnswer[confirm] = "y"

\* Lines 55-61: the operator's answer.
Confirm ==
    /\ cp.pc = "confirm"
    /\ \E confirm \in Answers :
         cp' = [cp EXCEPT !.h_answer = confirm,
                          !.pc = IF Confirmed(confirm) THEN "drop_temp" ELSE "preview"]
    /\ UNCHANGED <<files, nibrs, nl, nm, source, crimes, temp, ld, env>>

\* Line 63: DROP TABLE IF EXISTS chicago_crimes_temp.
DropTemp ==
    /\ cp.pc = "drop_temp"
    /\ temp' = NoTable
    /\ cp' = [cp EXCEPT !.pc = "create_temp"]
    /\ UNCHANGED <<files, nibrs, nl, nm, source, crimes, ld, env>>

\* Line 64: CREATE TABLE chicago_crimes_temp LIKE chicago_crimes.
CreateTemp ==
    /\ cp.pc = "create_temp"
    /\ crimes.exists
    /\ temp' = [exists |-> TRUE, rows |-> <<>>, uniq |-> crimes.uniq]
    /\ cp' = [cp EXCEPT !.pc = "count"]
    /\ UNCHANGED <<files, nibrs, nl, nm, source, crimes, ld, env>>

\* Lines 67-69.
CountRows ==
    /\ cp.pc = "count"
    /\ crimes.exists
    /\ cp' = [cp EXCEPT !.total_rows = Len(crimes.rows), !.pc = "alter"]
    /\ UNCHANGED <<files, nibrs, nl, nm, source, crimes, temp, ld, env>>

\* Lines 78-83: ADD UNIQUE INDEX; when it raises the script prints and goes on
\* with a table that has no such index.
AlterTemp ==
    /\ cp.pc = "alter"
    /\ \E ok \in BOOLEAN : temp' = [temp EXCEPT !.uniq = @ \/ ok]
    /\ cp' = [cp EXCEPT !.offset = 0, !.pc = "copy"]
    /\ UNCHANGED <<files, nibrs, nl, nm, source, crimes, ld, env>>

\* SELECT * FROM chicago_crimes LIMIT b OFFSET off, in the table's scan order.
BatchFirst(rs, b, off) == SubSeq(rs, 1, Min(b, Len(rs)))
Batch(rs, b, off) ==
    IF off >= Len(rs) THEN <<>> ELSE SubSeq(rs, off + 1, Min(off + b, Len(rs)))

\* INSERT IGNORE: a row whose ID the unique index already holds is skipped.
RECURSIVE InsertIgnore(_, _)
InsertIgnore(tbl, rs) ==
    IF rs = <<>> THEN tbl
    ELSE LET r == Head(rs)
             t2 == IF tbl.uniq /\ r.ID \in Ids(tbl.rows)
                   THEN tbl ELSE [tbl EXCEPT !.rows = Append(@, r)]
         IN  InsertIgnore(t2, Tail(rs))

\* Lines 84-102: one batch; the loop ends at the first batch that inserts nothing.
CopyBatch ==
    /\ cp.pc = "copy"
    /\ crimes.exists
    /\ LET t2 == InsertIgnore(temp, Batch(crimes.rows, cp.batch_size, cp.offset))
           rows == Len(t2.rows) - Len(temp.rows)
       IN  /\ temp' = t2
           /\ cp' = [cp EXCEPT !.rows = rows,
                                !.offset = @ + cp.batch_size,
                                !.h_batches = @ + 1,
                                !.pc = IF rows = 0 THEN "drop" ELSE "copy"]
    /\ UNCHANGED <<files, nibrs, nl, nm, source, crimes, ld, env>>

\* Line 104: DROP TABLE chicago_crimes.
DropTable ==
    /\ cp.pc = "drop"
    /\ crimes.exists
    /\ crimes' = NoTable
    /\ cp' = [cp EXCEPT !.pc = "rename"]
    /\ UNCHANGED <<files, nibrs, nl, nm, source, temp, ld, env>>

\* Lines 105-111: ALTER TABLE chicago_crimes_temp RENAME TO chicago_crimes.
RenameTemp ==
    /\ cp.pc = "rename"
    /\ ~crimes.exists
    /\ crimes' = temp
    /\ temp' = NoTable
    /\ cp' = [cp EXCEPT !.h_ran = TRUE, !.pc = "preview"]
    /\ UNCHANGED <<files, nibrs, nl, nm, source, ld, env>>

\* Line 105 when a table named chicago_crimes exists again (a loader's to_sql
\* has created it since the DROP): the RENAME raises, nothing catches it and
\* the script ends, chicago_crimes_temp left in place.
RenameFail ==
    /\ cp.pc = "rename"
    /\ crimes.exists
    /\ cp' = [cp EXCEPT !.pc = "killed"]
    /\ UNCHANGED <<files, nibrs, nl, nm, source, crimes, temp, ld, env>>

\* Lines 113-117.
Preview ==
    /\ cp.pc = "preview"
    /\ crimes.exists
    /\ cp' = [cp EXCEPT !.pc = "end"]
    /\ UNCHANGED <<files, nibrs, nl, nm, source, crimes, temp, ld, env>>

\* The script is terminated from outside between two statements.
CpKill ==
    /\ cp.pc \notin {"off", "end", "killed"}
    /\ cp.h_runs < MaxCpRuns
    /\ cp' = [cp EXCEPT !.pc = "killed"]
    /\ UNCHANGED <<files, nibrs, nl, nm, source, crimes, temp, ld, env>>

\* The script is run again.
Rerun ==
    /\ cp.pc \in {"end", "killed"}
    /\ cp.h_runs < MaxCpRuns
    /\ cp' = InitCp(cp.batch_size, cp.h_runs + 1, cp.h_ran /\ cp.pc = "end")
    /\ UNCHANGED <<files, nibrs, nl, nm, source, crimes, temp, ld, env>>

\* The source goes down: from now on every client.get raises.
SourceDown ==
    /\ ~env.down
    /\ env' = [env EXCEPT !.down = TRUE]
    /\ UNCHANGED <<files, nibrs, nl, nm, source, crimes, temp, ld, cp>>

(* ------------------------------------------------- cleaning of a frame *)

\* A cell holds a scalar or a composite (a list or a dict); str() of a
\* composite is a string, which is a scalar of another kind.
Scalar(v) == [kind |-> "scalar", val |-> v]
Composite(v) == [kind |-> "composite", val |-> v]
Str(x) == [kind |-> "string", val |-> x.val]

\* col.upper() and col.lower() on the column names used here.
UpperOf ==
    [id |-> "ID", year |-> "YEAR", location |-> "LOCATION", extra |-> "EXTRA",
     weapon_id |-> "WEAPON_ID", data_year |-> "DATA_YEAR",
     ID |-> "ID", YEAR |-> "YEAR", LOCATION |-> "LOCATION", EXTRA |-> "EXTRA",
     WEAPON_ID |-> "WEAPON_ID", DATA_YEAR |-> "DATA_YEAR"]
LowerOf ==
    [id |-> "id", year |-> "year", location |-> "location", extra |-> "extra",
     weapon_id |-> "weapon_id", data_year |-> "data_year",
     ID |-> "id", YEAR |-> "year", LOCATION |-> "location", EXTRA |-> "extra",
     WEAPON_ID |-> "weapon_id", DATA_YEAR |-> "data_year"]
Lower(c) == LowerOf[c]

\* A frame's columns renamed by f (no two columns of the frames used here
\* get the same new name).
Rename(row, f) ==
    [c \in {f[k] : k \in DOMAIN row} |-> row[CHOOSE k \in DOMAIN row : f[k] = c]]

\* API-Chicago-request.py lines 80-87: the frame of a record of the page, as it
\* is handed to to_sql: 'location' dropped, the column names in upper case.
RestClean(r) ==
    Rename([k \in DOMAIN r \ {"location"} |-> r[k]], UpperOf)

\* API-NIBRS-request.py lines 138-142: lower-case names, data_year added when
\* the file has no such column.
WithDataYear(row, year) ==
    LET low == Rename(row, LowerOf)
    IN  IF "data_year" \in DOMAIN low THEN low
        ELSE [c \in DOMAIN low \cup {"data_year"} |->
                 IF c = "data_year" THEN Scalar(year) ELSE low[c]]

\* Lines 146-155: with the table found, only the columns it has are kept.
ValidColumnsExact(cols, table_exists, db_columns) ==
    IF table_exists THEN {c \in cols : c \in db_columns} ELSE cols
ValidColumns(cols, table_exists, db_columns) ==
    IF table_exists
    THEN {c \in cols : Lower(c) \in {Lower(d) : d \in db_columns}}
    ELSE cols

\* Lines 138-169: the frame of a row of the chunk, as it is handed to to_sql.
LocalClean(row, year, table_exists, db_columns) ==
    LET df == WithDataYear(row, year)
        valid == ValidColumns(DOMAIN df, table_exists, db_columns)
    IN  [c \in valid |-> IF df[c].kind = "composite" THEN Str(df[c]) ELSE df[c]]

(* ------------------------------ API-NIBRS-request.py: the local loader *)

\* NIBRS_TABLES (lines 27-69), cut to its first two names.
NIBRS_TABLES == <<"nibrs_weapon", "nibrs_criminal_act">>
Tables == 1..Len(NIBRS_TABLES)
Parts == Years \X Tables

\* chunk_size = 10000 (line 125), scaled; most rows of a file; failures of a
\* call into the store over all runs; runs of the job after the first.
LocalChunk == 2
MaxLocalRows == 3
MaxLocalFaults == 1
MaxLocalRuns == 1

\* A CSV file: whether it exists, its header, the number of its rows, and the
\* chunk at which read_csv raises (0: none; a file of 0 bytes raises at once).
NoFile == [exists |-> FALSE, header |-> {}, n |-> 0, bad |-> 0]
CsvFile(header, n, bad) == [exists |-> TRUE, header |-> header, n |-> n, bad |-> bad]
Chunks(n) == (n + LocalChunk - 1) \div LocalChunk

\* A NIBRS table of the store: its columns and its rows.
NoNibrsTable == [exists |-> FALSE, columns |-> {}, rows |-> <<>>]

\* The row of a file as read_csv returns it: one cell for each header column.
CsvRow(f, year) ==
    [c \in f.header |-> Scalar(IF Lower(c) = "data_year" THEN year ELSE 0)]

\* The rows first..last of the file of (year, t), as they are handed to to_sql.
Frame(f, year, first, last, table_exists, db_columns) ==
    [i \in 1..(last - first + 1) |->
        [year |-> year, idx |-> first + i - 1,
         cells |-> LocalClean(CsvRow(f, year), year, table_exists, db_columns)]]

\* The store takes an INSERT that names only columns the table has (names
\* compared without case); a table that does not exist is created from the frame.
Accepts(tbl, frame) ==
    \/ ~tbl.exists
    \/ \A i \in DOMAIN frame :
          {Lower(c) : c \in DOMAIN frame[i].cells} \subseteq {Lower(d) : d \in tbl.columns}

LocalAppend(tbl, frame) ==
    IF frame = <<>> THEN tbl
    ELSE IF tbl.exists THEN [tbl EXCEPT !.rows = @ \o frame]
    ELSE [exists |-> TRUE, columns |-> DOMAIN frame[1].cells, rows |-> frame]

\* The locals at the top of the function (line 79), in run number run.
InitLocal(run, faults) ==
    [pc |-> "year", year |-> FirstYear, ti |-> 1,
     table_exists |-> FALSE, db_columns |-> {}, total_records |-> 0,
     chunk_idx |-> 0, first |-> 0, last |-> 0,
     run |-> run, faults |-> faults,
     cached_absent |-> {},     \* tables has_table answered False for, this run
     h_visited |-> <<>>,       \* (year, table) pairs reached at line 93, this run
     h_written |-> 0,          \* rows this run appended for the current pair
     h_attempts |-> 0,         \* calls of to_sql for the current chunk
     h_failed |-> "",          \* what raised in the current pair, if anything
     h_inspect_raised |-> FALSE,   \* has_table or get_columns raised for it
     h_consumed |-> FALSE]     \* read_csv reached the end of the file

LocalOff == [InitLocal(0, 0) EXCEPT !.pc = "off"]

\* `continue` at the end of a pair (lines 101, 132, 186-190): the next table,
\* or the next year, or the end of the function.
NextYearOf(s) ==
    IF s.year + 1 > LastYear THEN [s EXCEPT !.pc = "finished"]
    ELSE [s EXCEPT !.year = @ + 1, !.ti = 1, !.pc = "year"]
NextTableOf(s) ==
    IF s.ti < Len(NIBRS_TABLES) THEN [s EXCEPT !.ti = @ + 1, !.pc = "table"]
    ELSE NextYearOf(s)

ThisFile == files.file[<<nl.year, nl.ti>>]
ThisTable == NIBRS_TABLES[nl.ti]

\* Lines 82-90: the year folder.
LocalYear ==
    /\ nl.pc = "year"
    /\ nl' = IF files.folder[nl.year] THEN [nl EXCEPT !.ti = 1, !.pc = "table"]
             ELSE NextYearOf(nl)
    /\ UNCHANGED <<files, nibrs, nm, source, crimes, temp, ld, cp, env>>

\* Lines 93-101: the file of the table.
LocalTable ==
    /\ nl.pc = "table"
    /\ LET s == [nl EXCEPT !.h_visited = Append(@, <<nl.year, nl.ti>>),
                           !.h_written = 0, !.h_attempts = 0, !.h_failed = "",
                           !.h_inspect_raised = FALSE,
                           !.h_consumed = FALSE, !.total_records = 0,
                           !.chunk_idx = 0, !.first = 0, !.last = 0]
       IN  nl' = IF ThisFile.exists THEN [s EXCEPT !.pc = "inspect"]
                 ELSE NextTableOf([s EXCEPT !.h_failed = "no_file"])
    /\ UNCHANGED <<files, nibrs, nm, source, crimes, temp, ld, cp, env>>

\* Lines 103-121: has_table and get_columns. The inspector made at line 79 may
\* repeat an answer it gave earlier in the run; when a call raises the table
\* is taken as absent.
LocalInspect ==
    /\ nl.pc = "inspect"
    /\ \E ans \in {"fresh", "cached", "raises"} :
         LET tbl == nibrs[ThisTable]
             found == ans = "fresh" /\ tbl.exists
         IN  /\ ans = "cached" => nl.ti \in nl.cached_absent
             /\ ans = "raises" => nl.faults < MaxLocalFaults
             /\ nl' = [nl EXCEPT !.table_exists = found,
                                 !.db_columns = IF found THEN tbl.columns ELSE {},
                                 !.faults = IF ans = "raises" THEN @ + 1 ELSE @,
                                 !.cached_absent =
                                     IF ans = "fresh" /\ ~tbl.exists
                                     THEN @ \cup {nl.ti} ELSE @,
                                 !.h_inspect_raised = (ans = "raises"),
                                 !.pc = "open"]
    /\ UNCHANGED <<files, nibrs, nm, source, crimes, temp, ld, cp, env>>

\* Lines 123-134: a file without rows is skipped; read_csv raises on a file
\* it cannot parse.
LocalOpen ==
    /\ nl.pc = "open"
    /\ LET f == ThisFile
       IN  nl' = IF f.n = 0 /\ f.bad = 1 THEN NextTableOf([nl EXCEPT !.h_failed = "read"])
                 ELSE IF f.n = 0 THEN NextTableOf(nl)
                 ELSE [nl EXCEPT !.total_records = 0, !.chunk_idx = 0, !.pc = "read"]
    /\ UNCHANGED <<files, nibrs, nm, source, crimes, temp, ld, cp, env>>

\* Line 134: what the iterator of read_csv does after k chunks of file f.
ReadOutcomeLenient(f, k) ==
    IF k * LocalChunk >= f.n THEN "end" ELSE "chunk"
ReadOutcome(f, k) ==
    IF f.bad = k + 1 THEN "raises"
    ELSE IF k * LocalChunk >= f.n THEN "end" ELSE "chunk"

\* Line 134: the next chunk of the file, its end, or the parser raising
\* (caught at line 188).
LocalRead ==
    /\ nl.pc = "read"
    /\ LET f == ThisFile
           k == nl.chunk_idx
           r == ReadOutcome(f, k)
       IN  nl' = IF r = "raises" THEN NextTableOf([nl EXCEPT !.h_failed = "read"])
                 ELSE IF r = "end"
                      THEN [nl EXCEPT !.h_consumed = TRUE, !.pc = "report"]
                 ELSE [nl EXCEPT !.first = k * LocalChunk + 1,
                                 !.last = Min((k + 1) * LocalChunk, f.n),
                                 !.h_attempts = 0,
                                 !.pc = "write"]
    /\ UNCHANGED <<files, nibrs, nm, source, crimes, temp, ld, cp, env>>

\* The frame of the chunk being written.
ThisFrame == Frame(ThisFile, nl.year, nl.first, nl.last, nl.table_exists, nl.db_columns)

\* Lines 136-180: the chunk is cleaned and appended.
LocalWrite ==
    /\ nl.pc = "write"
    /\ Accepts(nibrs[ThisTable], ThisFrame)
    /\ nibrs' = [nibrs EXCEPT ![ThisTable] = LocalAppend(@, ThisFrame)]
    /\ nl' = [nl EXCEPT !.total_records = @ + Len(ThisFrame),
                        !.chunk_idx = @ + 1,
                        !.h_written = @ + Len(ThisFrame),
                        !.h_attempts = @ + 1,
                        !.pc = "read"]
    /\ UNCHANGED <<files, nm, source, crimes, temp, ld, cp, env>>

\* What follows a to_sql that raised (lines 182-184), j rows being durable.
WriteErrorExit(s, j) ==
    [s EXCEPT !.h_written = @ + j, !.h_attempts = @ + 1,
              !.h_failed = "write", !.pc = "finished"]
WriteError(s, j) ==
    [s EXCEPT !.h_written = @ + j, !.h_attempts = @ + 1,
              !.h_failed = "write", !.pc = "report"]

\* Lines 175 and 182-184: to_sql raises, because the store rejects a column
\* (nothing is written) or fails after j rows are durable; the loop is left.
LocalWriteFail ==
    /\ nl.pc = "write"
    /\ \/ /\ ~Accepts(nibrs[ThisTable], ThisFrame)
          /\ nl' = WriteError(nl, 0)
          /\ UNCHANGED nibrs
       \/ /\ Accepts(nibrs[ThisTable], ThisFrame)
          /\ nl.faults < MaxLocalFaults
          /\ \E j \in FailPrefixes(Len(ThisFrame)) :
               /\ nibrs' = [nibrs EXCEPT ![ThisTable] =
                              LocalAppend(@, SubSeq(ThisFrame, 1, j))]
               /\ nl' = WriteError([nl EXCEPT !.faults = @ + 1], j)
    /\ UNCHANGED <<files, nm, source, crimes, temp, ld, cp, env>>

\* Line 186: the pair is reported as done, with total_records.
LocalReport ==
    /\ nl.pc = "report"
    /\ nl' = NextTableOf(nl)
    /\ UNCHANGED <<files, nibrs, nm, source, crimes, temp, ld, cp, env>>

\* The job is run again on the same files (lines 192-197).
LocalRerun ==
    /\ nl.pc = "finished"
    /\ nl.run < MaxLocalRuns
    /\ nl' = InitLocal(nl.run + 1, nl.faults)
    /\ UNCHANGED <<files, nibrs, nm, source, crimes, temp, ld, cp, env>>

(* ------------------------------------------------- the loader, one instance *)

NoCrash == [run |-> -1, year |-> 0, K |-> 0, j |-> 0, inorder |-> FALSE]

InitEnv ==
    [down |-> FALSE, faults |-> 0, restarts |-> 0,
     startCount |-> [y \in Years |-> 0], crash |-> NoCrash]

CpOff == [pc |-> "off"]

\* The upstream dataset: n[y] records in year y, the b[y]-th of which has a bad date.
Source(n, b) == [y \in Years |-> SrcYear(y, n[y], b[y])]

\* The local loader is not run, and no frame is followed through a cleaning.
NoLocal ==
    /\ files = [folder |-> [y \in Years |-> FALSE], file |-> [pr \in Parts |-> NoFile]]
    /\ nibrs = [t \in {NIBRS_TABLES[i] : i \in Tables} |-> NoNibrsTable]
    /\ nl = LocalOff
    /\ nm = [pc |-> "off"]

InitStore ==
    /\ NoLocal
    /\ crimes = NoTable
    /\ temp = NoTable
    /\ ld = [p \in Loaders |-> IF p = Main THEN InitLoader ELSE Off]
    /\ cp = CpOff
    /\ env = InitEnv

\* One loader run after another against a source that stays up and whose
\* dates all parse; calls may raise, and the process may be terminated.
Init ==
    /\ \E n \in [Years -> 0..MaxSrc] : source = Source(n, [y \in Years |-> 0])
    /\ InitStore

Next ==
    \/ CheckResume(Main)
    \/ Fetch(Main)
    \/ FetchFail(Main)
    \/ Backoff(Main)
    \/ Write(Main)
    \/ WriteFail(Main)
    \/ NextYear(Main)
    \/ Kill(Main)
    \/ KillMidWrite(Main)
    \/ Restart(Main)

Spec == Init /\ [][Next]_vars

\* One loader run against a source that may go down for good and may hold a
\* record whose date does not parse.
InitHalt ==
    /\ \E n \in [Years -> 0..MaxSrc] :
         \E b \in [Years -> 0..MaxSrc] :
             /\ \A y \in Years : b[y] <= n[y]
             /\ source = Source(n, b)
    /\ InitStore

NextHalt ==
    \/ CheckResume(Main)
    \/ Fetch(Main)
    \/ FetchFail(Main)
    \/ Backoff(Main)
    \/ CleanFail(Main)
    \/ Write(Main)
    \/ WriteFail(Main)
    \/ NextYear(Main)
    \/ SourceDown

SpecHalt == InitHalt /\ [][NextHalt]_vars

\* The clean-up script alone, run on any table the loader may have left, with
\* any batch size.
InitCompact ==
    /\ source = [y \in Years |-> <<>>]
    /\ \E rs \in TableRows : \E u \in BOOLEAN : \E e \in BOOLEAN :
         /\ u => NoDup(rs)
         /\ ~e => rs = <<>> /\ ~u
         /\ crimes = [exists |-> e, rows |-> rs, uniq |-> u]
    /\ temp = NoTable
    /\ ld = [p \in Loaders |-> Off]
    /\ \E b \in 1..MaxBatch : cp = InitCp(b, 0, FALSE)
    /\ env = InitEnv
    /\ NoLocal

NextCompact ==
    \/ ShowTables
    \/ Stats
    \/ Confirm
    \/ DropTemp
    \/ CreateTemp
    \/ CountRows
    \/ AlterTemp
    \/ CopyBatch
    \/ DropTable
    \/ RenameTemp
    \/ Preview
    \/ CpKill
    \/ Rerun

SpecCompact == InitCompact /\ [][NextCompact]_vars

\* The same runs, the copy loop taking its next iteration whenever it can: each
\* statement of the loop returns.
SpecCopy == InitCompact /\ [][NextCompact]_vars /\ WF_vars(CopyBatch)

\* One loader run that nothing stops from outside: the source stays up, every
\* date parses, a call may raise (MaxFaults times at most, fewer than the
\* retry bound), and every call of the sequential script returns or raises.
NextLive ==
    \/ CheckResume(Main)
    \/ Fetch(Main)
    \/ FetchFail(Main)
    \/ Backoff(Main)
    \/ Write(Main)
    \/ WriteFail(Main)
    \/ NextYear(Main)

SpecLive == Init /\ [][NextLive]_vars /\ WF_vars(NextLive)

\* One loader run, alone, on a table that holds the first K[y] records of each
\* year y of the source, in the source's order; a failed to_sql is rolled back.
InitExact ==
    /\ \E n \in [Years -> 0..MaxSrc] : source = Source(n, [y \in Years |-> 0])
    /\ NoLocal
    /\ \E K \in [Years -> 0..MaxSrc] :
         /\ \A y \in Years : K[y] <= Len(source[y])
         /\ LET held(y) == Clean(SubSeq(source[y], 1, K[y]))
                rs == held(FirstYear) \o held(LastYear)
            IN  crimes = IF rs = <<>> THEN NoTable ELSE NewTable(rs)
         /\ env = [InitEnv EXCEPT !.startCount = K]
    /\ temp = NoTable
    /\ ld = [p \in Loaders |-> IF p = Main THEN InitLoader ELSE Off]
    /\ cp = CpOff

NextExact ==
    \/ CheckResume(Main)
    \/ Fetch(Main)
    \/ FetchFail(Main)
    \/ Backoff(Main)
    \/ Write(Main)
    \/ WriteRollback(Main)
    \/ NextYear(Main)

SpecExact == InitExact /\ [][NextExact]_vars

(* ------------------------------------------------ two loader instances *)

\* Two instances of the script started against the same store, which holds the
\* first k records of the first year, left by an earlier run. No call raises
\* but the count query on a table that does not exist yet.
InitRace ==
    /\ \E n \in [Years -> 0..MaxSrc] :
         \E k \in 0..n[FirstYear] :
             /\ source = Source(n, [y \in Years |-> 0])
             /\ crimes = IF k = 0 THEN NoTable
                         ELSE NewTable(Clean(SubSeq(source[FirstYear], 1, k)))
    /\ temp = NoTable
    /\ ld = [p \in Loaders |-> InitLoader]
    /\ cp = CpOff
    /\ env = [InitEnv EXCEPT !.faults = MaxFaults]
    /\ NoLocal

NextRace ==
    \E p \in Loaders :
        \/ CheckResume(p)
        \/ Fetch(p)
        \/ Write(p)
        \/ NextYear(p)

SpecRace == InitRace /\ [][NextRace]_vars

(* ---------------------------------------------------- the local loader *)

\* The headers the files come with, and the columns of a table made before
\* the job's first run.
Headers == {{"weapon_id"}, {"WEAPON_ID", "DATA_YEAR", "EXTRA"}}
MadeBefore == [exists |-> TRUE, columns |-> {"WEAPON_ID", "DATA_YEAR"}, rows |-> <<>>]

\* What the file of one pair may be: absent, of 0 bytes, any number of rows,
\* or unreadable from some chunk on.
FileKinds(h) ==
    {NoFile, CsvFile({}, 0, 1)}
        \cup {CsvFile(h, n, 0) : n \in 0..MaxLocalRows}
        \cup {CsvFile(h, MaxLocalRows, c) : c \in 1..Chunks(MaxLocalRows)}

\* A data directory with every folder and every file whole, but for one
\* year folder that is absent, or for one pair's file, which is of any kind.
WholeDir(h) ==
    [folder |-> [y \in Years |-> TRUE],
     file |-> [q \in Parts |-> CsvFile(h, MaxLocalRows, 0)]]
DataDirs(h) ==
    {[WholeDir(h) EXCEPT !.folder[y0] = FALSE] : y0 \in Years}
        \cup {[WholeDir(h) EXCEPT !.file[pr] = k] : pr \in Parts, k \in FileKinds(h)}

\* The job run on such a directory, the tables made beforehand or not.
InitLocalJob ==
    /\ \E h \in Headers : files \in DataDirs(h)
    /\ \E made \in BOOLEAN :
         nibrs = [t \in {NIBRS_TABLES[i] : i \in Tables} |->
                     IF made THEN MadeBefore ELSE NoNibrsTable]
    /\ \E faults \in {0, MaxLocalFaults} : nl = InitLocal(0, faults)
    /\ nm = [pc |-> "off"]
    /\ source = [y \in Years |-> <<>>]
    /\ crimes = NoTable
    /\ temp = NoTable
    /\ ld = [p \in Loaders |-> Off]
    /\ cp = CpOff
    /\ env = InitEnv

\* One run of the job; calls into the store may raise.
NextLocal ==
    \/ LocalYear
    \/ LocalTable
    \/ LocalInspect
    \/ LocalOpen
    \/ LocalRead
    \/ LocalWrite
    \/ LocalWriteFail
    \/ LocalReport

SpecLocal == InitLocalJob /\ [][NextLocal]_vars

\* The job run again and again on the same files, no call into the store raising.
InitRerun ==
    /\ InitLocalJob
    /\ nl.faults = MaxLocalFaults

NextRerun ==
    \/ LocalYear
    \/ LocalTable
    \/ LocalInspect
    \/ LocalOpen
    \/ LocalRead
    \/ LocalWrite
    \/ LocalReport
    \/ LocalRerun

SpecRerun == InitRerun /\ [][NextRerun]_vars

(* ------------------------------------- the clean-up, then a loader run *)

\* The loader is started once the clean-up script has ended.
StartLoader ==
    /\ cp.pc = "end"
    /\ ld[Main].pc = "off"
    /\ ld' = [ld EXCEPT ![Main] = InitLoader]
    /\ UNCHANGED <<files, nibrs, nl, nm, source, crimes, temp, cp, env>>

\* The clean-up script run on a table earlier loader runs have left (its IDs
\* are those of the first records of the source, some of them repeated), and
\* a loader run after it; of the loader's calls only the count query may raise.
InitMaint ==
    /\ \E rs \in TableRows : \E n \in Cardinality(Ids(rs))..MaxSrc :
         /\ rs # <<>>
         /\ Ids(rs) = 1..Cardinality(Ids(rs))
         /\ crimes = NewTable(rs)
         /\ source = [y \in Years |-> IF y = FirstYear THEN SrcYear(y, n, 0) ELSE <<>>]
    /\ temp = NoTable
    /\ ld = [p \in Loaders |-> Off]
    /\ \E b \in 1..MaxBatch : cp = InitCp(b, 0, FALSE)
    /\ env = InitEnv
    /\ NoLocal

NextMaint ==
    \/ ShowTables
    \/ Stats
    \/ Confirm
    \/ DropTemp
    \/ CreateTemp
    \/ CountRows
    \/ AlterTemp
    \/ CopyBatch
    \/ DropTable
    \/ RenameTemp
    \/ Preview
    \/ StartLoader
    \/ CheckResume(Main)
    \/ Fetch(Main)
    \/ Backoff(Main)
    \/ Write(Main)
    \/ WriteRejected(Main)
    \/ NextYear(Main)

SpecMaint == InitMaint /\ [][NextMaint]_vars

\* The clean-up script and a loader run started together on such a table: the
\* two processes take their steps in any order; of the loader's calls only the
\* count query on a missing table raises.
InitSwap ==
    /\ \E rs \in TableRows : \E n \in Cardinality(Ids(rs))..MaxSrc :
         /\ rs # <<>>
         /\ Ids(rs) = 1..Cardinality(Ids(rs))
         /\ crimes = NewTable(rs)
         /\ source = [y \in Years |-> IF y = FirstYear THEN SrcYear(y, n, 0) ELSE <<>>]
    /\ temp = NoTable
    /\ ld = [p \in Loaders |-> IF p = Main THEN InitLoader ELSE Off]
    /\ \E b \in 1..MaxBatch : cp = InitCp(b, 0, FALSE)
    /\ env = [InitEnv EXCEPT !.faults = MaxFaults]
    /\ NoLocal

NextSwap ==
    \/ ShowTables
    \/ Stats
    \/ Confirm
    \/ DropTemp
    \/ CreateTemp
    \/ CountRows
    \/ AlterTemp
    \/ CopyBatch
    \/ DropTable
    \/ RenameTemp
    \/ RenameFail
    \/ Preview
    \/ CheckResume(Main)
    \/ Fetch(Main)
    \/ Backoff(Main)
    \/ Write(Main)
    \/ WriteRejected(Main)
    \/ NextYear(Main)

SpecSwap == InitSwap /\ [][NextSwap]_vars

(* ------------------------------------------- one frame through a cleaning *)

\* A record of a page as client.get returns it for year y: an id, and maybe a
\* year, a location (a dict) and one more field, a scalar or a composite.
RestRecords(y) ==
    {[f \in {"id"} \cup ys \cup ls \cup es |->
         CASE f = "id" -> Scalar(1)
           [] f = "year" -> Scalar(y)
           [] f = "location" -> Composite(0)
           [] f = "extra" -> ev] :
        ys \in {{}, {"year"}}, ls \in {{}, {"location"}},
        es \in {{}, {"extra"}}, ev \in {Scalar(0), Composite(0)}}

\* A row of a chunk of a file of year y: a key column, and maybe a data_year
\* column and one more column.
CsvRows(y) ==
    {[f \in {w} \cup ds \cup es |->
         IF Lower(f) = "data_year" THEN Scalar(y)
         ELSE IF Lower(f) = "extra" THEN ev ELSE Scalar(0)] :
        w \in {"weapon_id", "WEAPON_ID"}, ds \in {{}, {"data_year"}, {"DATA_YEAR"}},
        es \in {{}, {"EXTRA"}}, ev \in {Scalar(0), Composite(0)}}

\* The columns get_columns may return for a table.
Schemas == SUBSET {"WEAPON_ID", "DATA_YEAR", "extra"}

NoRow == [c \in {} |-> Scalar(0)]

InitNorm ==
    /\ \E y \in Years :
         \/ \E r \in RestRecords(y) :
              nm = [pc |-> "raw", loader |-> "rest", year |-> y, row |-> r,
                    table_exists |-> FALSE, db_columns |-> {}, out |-> NoRow]
         \/ \E r \in CsvRows(y) : \E found \in BOOLEAN : \E cols \in Schemas :
              /\ ~found => cols = {}
              /\ nm = [pc |-> "raw", loader |-> "local", year |-> y, row |-> r,
                       table_exists |-> found, db_columns |-> cols, out |-> NoRow]
    /\ files = [folder |-> [y \in Years |-> FALSE], file |-> [pr \in Parts |-> NoFile]]
    /\ nibrs = [t \in {NIBRS_TABLES[i] : i \in Tables} |-> NoNibrsTable]
    /\ nl = LocalOff
    /\ source = [y \in Years |-> <<>>]
    /\ crimes = NoTable
    /\ temp = NoTable
    /\ ld = [p \in Loaders |-> Off]
    /\ cp = CpOff
    /\ env = InitEnv

\* API-Chicago-request.py lines 80-92: the frame handed to to_sql.
CleanRest ==
    /\ nm.pc = "raw"
    /\ nm.loader = "rest"
    /\ nm' = [nm EXCEPT !.out = RestClean(nm.row), !.pc = "to_sql"]
    /\ UNCHANGED <<files, nibrs, nl, source, crimes, temp, ld, cp, env>>

\* API-NIBRS-request.py lines 136-175: the frame handed to to_sql.
CleanLocal ==
    /\ nm.pc = "raw"
    /\ nm.loader = "local"
    /\ nm' = [nm EXCEPT !.out = LocalClean(nm.row, nm.year, nm.table_exists, nm.db_columns),
                        !.pc = "to_sql"]
    /\ UNCHANGED <<files, nibrs, nl, source, crimes, temp, ld, cp, env>>

NextNorm ==
    \/ CleanRest
    \/ CleanLocal

SpecNorm == InitNorm /\ [][NextNorm]_vars

(* ------------------------------------------ claims about the REST loader *)

L == ld[Main]
SrcIds(y) == {source[y][i].id : i \in DOMAIN source[y]}

\* C1 (as claimed): once a run has reached the end of year P, every source
\* record of P is present in chicago_crimes at least once.
C1_AtLeastOnce ==
    \A y \in L.h_done : SrcIds(y) \subseteq Ids(crimes.rows)

\* C2 (as claimed): with K rows of year P in the table at the start of a run,
\* the first fetch for P is issued at offset K and every later one at >= K.
C2_ResumeAlways ==
    L.pc \notin {"off", "dead", "check_resume"} =>
        /\ L.offset >= env.startCount[L.year]
        /\ L.h_first # -1 => L.h_first = env.startCount[L.year]

\* C2 (amended): the same, for a year whose count query returned.
C2_Resume ==
    (L.pc \notin {"off", "dead", "check_resume"} /\ L.h_resumed) =>
        /\ L.offset >= env.startCount[L.year]
        /\ L.h_first # -1 => L.h_first = env.startCount[L.year]

C2_Witness ==
    /\ L.pc = "write"
    /\ L.h_resumed
    /\ env.startCount[L.year] > 0
    /\ L.h_first = env.startCount[L.year]

\* The run that follows a termination inside to_sql, at the crashed year.
AfterCrash ==
    /\ env.crash.run + 1 = env.restarts
    /\ L.year = env.crash.year
    /\ L.pc \notin {"off", "dead", "check_resume"}

\* C3 (as claimed): after a termination that left j rows of the page on top of
\* K rows of year P, the next run resumes P at K + j and first fetches there.
C3_CrashResumeAlways ==
    AfterCrash =>
        /\ L.h_start = env.crash.K + env.crash.j
        /\ L.h_first # -1 => L.h_first = env.crash.K + env.crash.j

\* C3 (amended): the same, when the next run's count query for P returned.
C3_CrashResume ==
    (AfterCrash /\ L.h_resumed) =>
        /\ L.h_start = env.crash.K + env.crash.j
        /\ L.h_first # -1 => L.h_first = env.crash.K + env.crash.j

C3_Witness ==
    /\ AfterCrash
    /\ L.h_resumed
    /\ env.crash.inorder
    /\ env.crash.K > 0
    /\ L.h_first = env.crash.K + env.crash.j

\* C4: a year whose iterations never raised ends after exactly N + 1 fetches,
\* N the number of full pages the source holds from the resume offset on, and
\* no fetch is issued after a short or empty page.
C4_Pagination ==
    ~L.h_failed =>
        /\ L.pc = "year_done" =>
              L.h_fetches = (Max(0, Len(source[L.year]) - L.h_start) \div Limit) + 1
        /\ (L.pc = "fetch" /\ L.h_lastlen # -1) => L.h_lastlen = Limit

C4_Witness ==
    /\ L.pc = "year_done"
    /\ ~L.h_failed
    /\ L.h_fetches >= 2
    /\ L.h_lastlen < Limit

C11_FailOpen ==
    /\ []((L.pc \notin {"off", "dead", "check_resume"} /\ ~L.h_resumed) =>
            /\ L.h_start = 0
            /\ L.h_first # -1 => L.h_first = 0)
    /\ [][(L.pc = "check_resume" /\ ld'[Main].pc \notin {"check_resume", "dead"}
            /\ ~ld'[Main].h_resumed) =>
               /\ ld'[Main].offset = 0
               /\ ld'[Main].retry_count = 0
               /\ ld'[Main].pc = "fetch"
               /\ crimes' = crimes]_vars

C11_Witness ==
    /\ L.pc = "write"
    /\ ~L.h_resumed
    /\ L.h_first = 0
    /\ L.retry_count = 0
    /\ env.startCount[L.year] > 0
    /\ CountYear(crimes.rows, L.year) > 0

(* ------------------------------- claims about retries in the REST loader *)

\* C5: when every client.get of a run raises, the loader calls it exactly
\* MaxRetry + 1 = 11 times, then exits, and no row has been written.
C5_RetryBound ==
    ~L.h_fetched =>
        /\ L.h_fetches <= MaxRetry + 1
        /\ L.h_fetches = MaxRetry + 1 => L.pc = "halted"
        /\ L.pc = "halted" =>
              /\ L.h_fetches = MaxRetry + 1
              /\ L.h_written = 0
              /\ L.year = FirstYear => crimes.rows = <<>>

C5_Witness ==
    /\ L.pc = "halted"
    /\ L.year = FirstYear
    /\ ~L.h_fetched
    /\ L.h_fetches = MaxRetry + 1

\* The step that takes retry_count over the bound.
Exhausts == L.retry_count <= MaxRetry /\ ld'[Main].retry_count > MaxRetry

\* C9 (as claimed): on retry exhaustion the year is abandoned and the loop
\* goes on with the next year.
C9_NextYearOnExhaustion ==
    [][Exhausts => ld'[Main].year = L.year + 1 \/ ld'[Main].pc = "finished"]_vars

\* C9 (amended): on retry exhaustion the process exits: the year is abandoned
\* and the run checks, fetches and writes nothing more, for no year.
C9_ExitOnExhaustion ==
    /\ [](L.retry_count > MaxRetry => L.pc = "halted")
    /\ [](L.pc = "halted" => L.retry_count = MaxRetry + 1 /\ L.year \notin L.h_done)
    /\ [][L.pc = "halted" => ld' = ld /\ crimes' = crimes]_vars

C9_Witness ==
    /\ L.pc = "halted"
    /\ L.year < LastYear
    /\ L.h_fetched
    /\ Len(source[L.year + 1]) > 0

\* C10 (as claimed): a record whose date cannot be parsed is dropped, the rest
\* of its page is written, no retry is consumed and the year goes on.
C10_BadRowDropped ==
    [][(L.pc = "write" /\ CleanRaises(L.results) /\ ld'[Main].pc # "write") =>
          /\ ld'[Main].retry_count = L.retry_count
          /\ ld'[Main].pc \in {"fetch", "year_done"}
          /\ \A i \in DOMAIN L.results :
                L.results[i].dateOK => L.results[i].id \in Ids(crimes'.rows)]_vars

\* C22: a page that is written moves the offset on by the number of records the
\* fetch returned, and the fetch that follows it starts with retry_count 0, as
\* does every year; retry_count is the number of iterations that raised in a
\* row in the current year, so the loader halts only after 11 such iterations.
C22_Advance ==
    /\ []((L.pc \in {"fetch", "write", "retry_wait", "halted"}) =>
            L.retry_count = L.h_consec)
    /\ [](L.pc = "halted" => L.h_consec = MaxRetry + 1)
    /\ [][(L.pc = "write" /\ ld'[Main].pc \in {"fetch", "year_done"}) =>
             /\ ld'[Main].offset = L.offset + Len(L.results)
             /\ ld'[Main].pc = "fetch" => ld'[Main].retry_count = 0]_vars
    /\ [][ld'[Main].year # L.year => ld'[Main].retry_count = 0]_vars

C22_Witness ==
    /\ L.pc = "halted"
    /\ L.offset >= L.h_start + Limit
    /\ L.year > FirstYear
    /\ env.faults > 0

\* C23: an iteration that raised is followed by one wait and then by the fetch
\* at the same offset of the same year, unless it took retry_count over the
\* bound: then the process has exited, and neither waits nor fetches again.
C23_Backoff ==
    /\ [][ld'[Main].h_consec = L.h_consec + 1 =>
             ld'[Main].pc = IF ld'[Main].retry_count > MaxRetry
                            THEN "halted" ELSE "retry_wait"]_vars
    /\ [][(L.pc = "retry_wait" /\ ld'[Main] # L) =>
             /\ ld'[Main].pc = "fetch"
             /\ ld'[Main].offset = L.offset
             /\ ld'[Main].year = L.year]_vars
    /\ [][(ld'[Main].pc = "fetch" /\ L.pc # "fetch" /\ ld'[Main].h_consec > 0) =>
             L.pc = "retry_wait"]_vars
    /\ [][L.pc = "halted" => ld'[Main] = L]_vars

C23_Witness ==
    /\ L.pc = "fetch"
    /\ L.h_consec = MaxRetry
    /\ L.offset > 0

\* C24: the years are taken in ascending order, one after the other, a year is
\* entered only when the year before it is done, and with finitely many
\* records and fewer failures in a row than the bound every year is
\* eventually done and the function returns after the last year.
C24_Sequencing ==
    /\ [](\A y \in Years : y < L.year => y \in L.h_done)
    /\ [][ld'[Main].year \in {L.year, L.year + 1}]_vars
    /\ [](L.pc = "finished" => L.year = LastYear /\ L.h_done = Years)
    /\ <>(L.pc = "finished")

C24_Witness ==
    /\ L.pc = "finished"
    /\ L.h_done = Years
    /\ env.faults = MaxFaults
    /\ \A y \in Years : CountYear(crimes.rows, y) >= Limit

\* C27: an iteration that raises, in the fetch, the cleaning or the write,
\* leaves offset and total_year_records as they were, and after the resume
\* block total_year_records equals offset in every state.
C27_CursorKept ==
    /\ [][ld'[Main].h_consec = L.h_consec + 1 =>
             /\ ld'[Main].offset = L.offset
             /\ ld'[Main].total_year_records = L.total_year_records
             /\ ld'[Main].year = L.year]_vars
    /\ [](L.pc \in {"fetch", "write", "retry_wait", "year_done", "halted", "finished"} =>
             L.total_year_records = L.offset)

C27_Witness ==
    /\ L.pc = "retry_wait"
    /\ L.h_pending
    /\ L.h_consec > 1
    /\ L.offset > L.h_start
    /\ L.h_written > L.offset - L.h_start
    /\ L.total_year_records = L.offset

\* The rows of a table that belong to year y, in the table's order.
YearRows(rs, y) == SelectSeq(rs, LAMBDA r : r.YEAR = y)

\* C26 (as claimed): one loader, an unchanging ordered source, page writes that
\* are all or nothing, a table that starts with the first K records of the
\* year: at every advance the offset is the number of the year's rows in
\* the table, and when the year is done its rows are the year's source
\* records, each once.
C26_ExactAlways ==
    /\ [][(L.pc = "write" /\ ld'[Main].pc \in {"fetch", "year_done"}) =>
             ld'[Main].offset = CountYear(crimes'.rows, L.year)]_vars
    /\ [][ld'[Main].h_done # L.h_done =>
             YearRows(crimes'.rows, L.year) = Clean(source[L.year])]_vars

\* The year's count query returned, or there was nothing to count.
CountedRight == L.h_resumed \/ env.startCount[L.year] = 0

\* C26 (amended): the same, for a year whose count query returned.
C26_Exact ==
    /\ [][(L.pc = "write" /\ ld'[Main].pc \in {"fetch", "year_done"} /\ CountedRight) =>
             ld'[Main].offset = CountYear(crimes'.rows, L.year)]_vars
    /\ [][(ld'[Main].h_done # L.h_done /\ CountedRight) =>
             YearRows(crimes'.rows, L.year) = Clean(source[L.year])]_vars

C26_Witness ==
    /\ L.pc = "finished"
    /\ L.h_done = Years
    /\ L.h_resumed
    /\ env.faults > 0
    /\ env.startCount[LastYear] > 0
    /\ Len(source[LastYear]) > env.startCount[LastYear] + Limit
    /\ YearRows(crimes.rows, LastYear) = Clean(source[LastYear])

(* --------------------------------------- claims about two loader instances *)

\* Rows of rs that carry the given ID.
Copies(rs, id) == Cardinality({i \in DOMAIN rs : rs[i].ID = id})

\* Both instances are through the loop of year y, which both entered at offset n.
BothFrom(y, n) ==
    \A p \in Loaders :
        /\ ld[p].year = y
        /\ ld[p].pc \in {"year_done", "finished"}
        /\ ld[p].h_start = n

\* C13: nothing keeps two instances from observing the same resume offset N for
\* a year; both then fetch from N on, and when both are through the year every
\* source record from N on has been written by each of them: the table holds
\* it at least twice.
C13_Race ==
    /\ \A p \in Loaders : ld[p].h_first # -1 => ld[p].h_first = ld[p].h_start
    /\ \A y \in Years : \A n \in 0..MaxSrc :
          BothFrom(y, n) =>
              /\ \A p \in Loaders : ld[p].h_written = Max(0, Len(source[y]) - n)
              /\ \A i \in DOMAIN source[y] :
                    i > n => Copies(crimes.rows, source[y][i].id) >= 2

C13_Witness ==
    \E n \in 1..MaxSrc :
        /\ BothFrom(FirstYear, n)
        /\ Len(source[FirstYear]) > n + 1
        /\ \A p \in Loaders : ld[p].h_first = n
        /\ \A i \in DOMAIN source[FirstYear] :
              Copies(crimes.rows, source[FirstYear][i].id) = IF i > n THEN 2 ELSE 1

(* -------------------------------------------- claims about the clean-up *)

\* A run that went through the swap.
Compacted == cp.pc \in {"preview", "end"} /\ cp.h_ran

\* C6 (as claimed): a confirmed clean-up leaves exactly one row for each ID
\* the table held before, removes as many rows as the duplicate count it
\* reported, and the next run reports 0 duplicates. Stated for the runs whose
\* ADD UNIQUE INDEX succeeded: the others copy every row, duplicates included.
C6_CompactResult ==
    /\ (Compacted /\ crimes.uniq) =>
          /\ crimes.exists
          /\ Ids(crimes.rows) = Ids(cp.h_before)
          /\ NoDup(crimes.rows)
          /\ Len(cp.h_before) - Len(crimes.rows) = cp.duplicates
    /\ (cp.h_after /\ cp.pc \in {"confirm", "preview", "end"}) => cp.duplicates = 0

\* C7: on a table without duplicates the script reports 0 duplicates, and no
\* run of it changes the table.
C7_Idempotent ==
    /\ []((cp.pc \in {"confirm", "preview", "end"} /\ ~cp.h_ran
            /\ NoDup(crimes.rows)) => cp.duplicates = 0)
    /\ [][(crimes.exists /\ NoDup(crimes.rows)) => crimes' = crimes]_vars

C7_Witness ==
    /\ cp.pc = "end"
    /\ cp.h_runs > 0
    /\ cp.has_table
    /\ cp.duplicates = 0
    /\ Len(crimes.rows) > 1
    /\ crimes.rows = cp.h_before

\* C25 (as claimed): at every step of a clean-up run, a termination from outside
\* between two statements included, a table named chicago_crimes exists and
\* holds every ID the table held when the run started.
C25_AtomicSwap ==
    (cp.pc # "off" /\ cp.has_table) =>
        /\ crimes.exists
        /\ Ids(cp.h_before) \subseteq Ids(crimes.rows)

\* The script is between the prompt and the end of the swap.
Cleaning == cp.pc \in {"drop_temp", "create_temp", "count", "alter", "copy", "drop", "rename"}

\* The duplicate count was > 0 and the answer was 'y'; the same with 'Y' too.
SaidY == cp.duplicates > 0 /\ cp.h_answer = "y"
SaidYes == cp.duplicates > 0 /\ cp.h_answer \in {"y", "Y"}

\* C28 (as claimed): tables are created, dropped or renamed only when the
\* duplicate count is > 0 and the operator answers 'y'; with a count of 0, any
\* other answer or no chicago_crimes, the table and its rows are unchanged.
C28_GuardedByY ==
    /\ [](Cleaning => SaidY)
    /\ [][(crimes' # crimes \/ temp' # temp) => SaidY]_vars
    /\ []((cp.pc = "end" /\ ~SaidY) =>
             /\ crimes.exists = cp.has_table
             /\ crimes.rows = cp.h_before)

\* C28 (amended): the same, the confirming answers being 'y' and 'Y'.
C28_Guarded ==
    /\ [](Cleaning => SaidYes)
    /\ [][(crimes' # crimes \/ temp' # temp) => SaidYes]_vars
    /\ []((cp.pc = "end" /\ ~SaidYes) =>
             /\ crimes.exists = cp.has_table
             /\ crimes.rows = cp.h_before)

C28_Witness ==
    /\ cp.pc = "end"
    /\ cp.h_ran
    /\ cp.h_answer = "Y"
    /\ cp.duplicates > 0
    /\ crimes.rows # cp.h_before

\* The least number of batches of b rows that hold n rows.
CeilDiv(n, b) == (n + b - 1) \div b

\* C29: the copy loop adds batch_size to offset at every iteration, is left at
\* the first batch that inserts no row, after at most
\* ceil(total_rows / batch_size) + 1 batches, the loop is left in the end, and
\* chicago_crimes is dropped only after it.
C29_LoopEnds ==
    /\ [](cp.pc \in {"copy", "drop", "rename"} =>
             /\ cp.offset = cp.h_batches * cp.batch_size
             /\ cp.h_batches <= CeilDiv(cp.total_rows, cp.batch_size) + 1)
    /\ [][(cp.pc = "copy" /\ cp'.pc \in {"copy", "drop"} /\ cp' # cp) =>
             /\ cp'.offset = cp.offset + cp.batch_size
             /\ cp'.h_batches = cp.h_batches + 1
             /\ (cp'.pc = "drop") = (cp'.rows = 0)]_vars
    /\ [][(crimes.exists /\ ~crimes'.exists) =>
             cp.pc = "drop" /\ cp.rows = 0 /\ cp.h_batches > 0]_vars
    /\ (cp.pc = "copy") ~> (cp.pc \in {"drop", "killed"})

C29_Witness ==
    /\ cp.pc = "rename"
    /\ ~temp.uniq
    /\ cp.batch_size > 1
    /\ cp.total_rows = MaxRows
    /\ cp.h_batches = CeilDiv(cp.total_rows, cp.batch_size) + 1

\* C30 (as claimed): a row the loader appended to chicago_crimes while the
\* clean-up was running is in chicago_crimes, by its ID, after the swap. The
\* loader started with the clean-up, and the rows it appended in its
\* current year, resumed at the row count, are the source's records
\* h_start + 1 .. offset.
C30_AppendsKept ==
    (cp.h_ran /\ L.pc \notin {"off", "check_resume"} /\ L.h_resumed) =>
        \A i \in (L.h_start + 1)..L.offset :
            source[L.year][i].id \in Ids(crimes.rows)

\* C19 (as claimed): whatever loader and clean-up runs came before, the store
\* takes an append of rows whose IDs the table already holds: the page a
\* loader is about to write is never refused for its IDs.
C19_AcceptsDuplicates ==
    (L.pc = "write" /\ ~CleanRaises(L.results)) => CanAppend(crimes, Clean(L.results))

(* ---------------------------------------- claims about the local loader *)

NibrsRows(ti) == nibrs[NIBRS_TABLES[ti]].rows

\* Rows of the table that come from row idx of the year's file.
LocalCopies(ti, year, idx) ==
    Cardinality({i \in DOMAIN NibrsRows(ti) :
                    NibrsRows(ti)[i].year = year /\ NibrsRows(ti)[i].idx = idx})

\* C12 (as claimed): the local loader resumes from the rows a pair already has
\* in the store, so running the job again on the same files appends no row
\* that is already there: no row of a file is in its table twice.
C12_LocalResume ==
    \A ti \in Tables : \A y \in Years : \A idx \in 1..MaxLocalRows :
        LocalCopies(ti, y, idx) <= 1

\* The columns of the frame being written, and the names of a set of columns
\* in lower case.
FrameColumns == DOMAIN ThisFrame[1].cells
LowerAll(cols) == {Lower(c) : c \in cols}

\* C14 (as claimed): when the target table exists at the time of the write,
\* each row handed to to_sql has only columns of that table, names compared
\* without case.
C14_FilterAtWrite ==
    (nl.pc = "write" /\ nibrs[ThisTable].exists) =>
        LowerAll(FrameColumns) \subseteq LowerAll(nibrs[ThisTable].columns)

\* C14 (amended): when has_table found the table at the start of the pair, the
\* frame has exactly the file's columns (and data_year) that are among the
\* columns get_columns returned, names compared without case; when the table
\* was not found, or the inspector raised, no column is dropped.
C14_FilterWhenFound ==
    nl.pc = "write" =>
        LET all == LowerAll(ThisFile.header) \cup {"data_year"}
        IN  /\ nl.table_exists =>
                  /\ LowerAll(FrameColumns) \subseteq LowerAll(nl.db_columns)
                  /\ all \cap LowerAll(nl.db_columns) \subseteq FrameColumns
            /\ ~nl.table_exists => FrameColumns = all

C14_Witness ==
    /\ nl.pc = "write"
    /\ nl.table_exists
    /\ "EXTRA" \in ThisFile.header
    /\ "extra" \notin FrameColumns
    /\ "weapon_id" \in FrameColumns

\* C17 (as claimed): when the year folder or the file is missing, the file
\* cannot be read, or the inspector raises, no row of the pair's file is
\* written and the loader goes on with the next table.
C17_FatalSkips ==
    (nl.h_failed \in {"no_file", "read"} \/ nl.h_inspect_raised) =>
        /\ nl.h_written = 0
        /\ nl.pc \in {"table", "year", "finished"}

\* C17 (amended): no pair is tried twice in a run and none of a year without
\* folder is tried; no row of a missing file is written; of a file that read_csv
\* cannot read from chunk c on, only rows of the chunks before c are written;
\* after either failure the loader is at the next pair. When the inspector
\* raises the pair is not skipped: it is loaded as if the table did not exist.
C17_SourceErrors ==
    /\ \A i, j \in DOMAIN nl.h_visited :
          /\ files.folder[nl.h_visited[i][1]]
          /\ i # j => nl.h_visited[i] # nl.h_visited[j]
    /\ \A ti \in Tables : \A i \in DOMAIN NibrsRows(ti) :
          LET r == NibrsRows(ti)[i]
              f == files.file[<<r.year, ti>>]
          IN  /\ files.folder[r.year]
              /\ f.exists
              /\ f.bad > 0 => r.idx <= (f.bad - 1) * LocalChunk
    /\ nl.h_failed \in {"no_file", "read"} => nl.pc \in {"table", "year", "finished"}
    /\ (nl.h_inspect_raised /\ nl.pc \in {"open", "read", "write", "report"}) =>
          ~nl.table_exists /\ nl.db_columns = {}

C17_Witness ==
    /\ nl.h_failed = "read"
    /\ nl.h_written > 0
    /\ nl.pc = "table"
    /\ nl.ti = 2
    /\ files.file[<<nl.year, 1>>].bad = 2
    /\ LocalCopies(1, nl.year, 1) = 1

\* C18 (as claimed): a pair is reported as done, with a total, only if its file
\* was read to the end and every chunk was written, and the total is the
\* number of rows written for it; a pair whose write raised is not reported so.
C18_ReportedOnlyIfDone ==
    nl.pc = "report" =>
        /\ nl.h_consumed
        /\ nl.h_failed # "write"
        /\ nl.total_records = nl.h_written

\* C20 (as claimed): a chunk whose to_sql raised is written again, after a
\* wait, before the pair is given up: the pair is not left after one attempt.
C20_WriteRetried ==
    nl.h_failed = "write" => nl.h_attempts > 1

\* The pairs in the order of the two loops (years outside, tables inside), and
\* those of them whose year folder exists.
AllPairs ==
    [i \in 1..(Cardinality(Years) * Len(NIBRS_TABLES)) |->
        <<FirstYear + ((i - 1) \div Len(NIBRS_TABLES)), ((i - 1) % Len(NIBRS_TABLES)) + 1>>]
HasFolder(pr) == files.folder[pr[1]]
PairsWithFolder == SelectSeq(AllPairs, HasFolder)

\* C21 (as claimed): no failure stops the job, and when it halts every (year,
\* table) pair has been visited exactly once, in the order of the enumeration.
C21_AllPairsVisited ==
    /\ nl.pc \in {"year", "table", "inspect", "open", "read", "write", "report", "finished"}
    /\ nl.pc = "finished" => nl.h_visited = AllPairs

\* C21 (amended): the same for the pairs of the years whose folder exists; the
\* tables of a year without folder are skipped together. Whatever raised, the
\* job has a next step until the enumeration is through.
C21_PairsWithFolderVisited ==
    /\ nl.pc \in {"year", "table", "inspect", "open", "read", "write", "report", "finished"}
    /\ nl.pc # "finished" => ENABLED NextLocal
    /\ Len(nl.h_visited) <= Len(PairsWithFolder)
    /\ nl.h_visited = SubSeq(PairsWithFolder, 1, Len(nl.h_visited))
    /\ nl.pc = "finished" => nl.h_visited = PairsWithFolder

C21_Witness ==
    /\ nl.pc = "finished"
    /\ nl.faults > 0
    /\ nl.h_visited = AllPairs
    /\ \E pr \in Parts : files.file[pr].bad > 0

(* ------------------------------------------- claims about the cleaning *)

\* C15 (as claimed): every row handed to to_sql for year y carries the
\* discriminator column (YEAR for chicago_crimes, data_year for a NIBRS
\* table) with value y, injected when the raw record lacks it.
C15_Discriminator ==
    nm.pc = "to_sql" =>
        LET d == IF nm.loader = "rest" THEN "YEAR" ELSE "data_year"
        IN  /\ d \in DOMAIN nm.out
            /\ nm.out[d].val = nm.year

\* C16 (as claimed): no cell of a row handed to to_sql holds a list or a dict:
\* the field was removed or replaced by its string, in both loaders.
C16_NoComposite ==
    nm.pc = "to_sql" => \A c \in DOMAIN nm.out : nm.out[c].kind # "composite"

====
